---- MODULE Spec2Model ----
(***************************************************************************)
(* A model of ga-maze-pathfinding: the grid maze (maze.py) and the genetic *)
(* algorithm solver built on DEAP (ga_solver.py).                          *)
(*                                                                         *)
(* The specifications share the variables; each leaves idle the part of    *)
(* the state it does not use:                                              *)
(*   SpecEval    GASolver._evaluate_individual, one loop iteration per     *)
(*               step, over a set of small mazes and every individual up   *)
(*               to MaxLen                                                 *)
(*   SpecOps     one call of a genetic operator on drawn arguments:        *)
(*               _simplify_individual, _pad_individual,                    *)
(*               _crossover_individuals, _mutate_individual                *)
(*   SpecGA      GASolver.solve and _ea_simple_with_early_stopping         *)
(*   SpecSelect  generation 0 and tournament selection, on every initial   *)
(*               population                                                *)
(*   SpecOpsGA   the operators called on their own or by the loop          *)
(* Random draws (random.choice, random.random, random.randint) are         *)
(* existentially quantified inputs of the actions. The DEAP library calls  *)
(* (cxTwoPoint, selTournament, HallOfFame, Fitness) are modelled by what   *)
(* the library does at the call sites named in the comments.               *)
(* Positions are 0-based as in the source; TLA+ sequences are 1-based, so  *)
(* grid[row][col] of the source is grid[row + 1][col + 1] here.            *)
(***************************************************************************)
EXTENDS Integers, Sequences, FiniteSets, TLC

VARIABLES
    \* ---- GASolver fields (ga_solver.py 40-48)
    maze,               \* self.maze
    max_path_length,    \* self.max_path_length
    population_size,    \* self.population_size
    max_generations,    \* self.max_generations
    tournament_size,    \* self.tournament_size
    early_stopping_generations,
    gene_pool,          \* the chromosomes toolbox.population draws from in this run
    \* ---- locals of _evaluate_individual (ga_solver.py 94-141)
    individual,         \* the argument
    idx,                \* number of loop iterations completed
    position,
    collisions,
    visited_positions,
    unique_positions,
    fitness,            \* the returned tuple, <<>> until returned
    pc,                 \* "idle" | "loop" | "break" | "done"
    \* ---- one call of a genetic operator (ga_solver.py 143-230)
    op,                 \* "idle" | "ready" | the operator called | "raised"
    arg1,               \* the first argument, as passed
    arg2,               \* the second argument of mate, as passed
    target_length,      \* the target_length argument of pad
    result1,            \* what the call returned
    result2,
    \* ---- solve and _ea_simple_with_early_stopping (ga_solver.py 232-393)
    gaPc,               \* "idle" | "start" | "select" | "mate" | "mutate" |
                        \* "evaluate" | "record" | "return" | "done" | "raised"
    population,         \* individuals: [genes, fitness], fitness <<>> when invalid
    offspring,
    aspirants,          \* the draws of the last selection, one tournament each
    gen,                \* the loop variable of the evolution loop
    loop_i,             \* the loop variable i of the crossover and mutation loops
    nevals,             \* len(invalid_ind)
    halloffame,
    logbook,
    best_fitness_history,
    generations_without_improvement,
    best_path,          \* what solve returned: <<list(best_individual), best_fitness>>
    \* ---- the same loop with its objects and the references to them
    heap,               \* the Individual objects created so far, by identity
    population_refs,    \* the list `population`: identities of its elements
    offspring_refs,     \* the list `offspring`
    hof_refs            \* the items of the hall of fame

evalVars == <<individual, idx, position, collisions, visited_positions,
              unique_positions, fitness, pc>>
opVars == <<op, arg1, arg2, target_length, result1, result2>>
gaVars == <<gaPc, population, offspring, aspirants, gen, loop_i, nevals, halloffame,
            logbook, best_fitness_history, generations_without_improvement,
            best_path>>
cfgVars == <<maze, max_path_length, population_size, max_generations,
             tournament_size, early_stopping_generations, gene_pool>>
refVars == <<heap, population_refs, offspring_refs, hof_refs>>
vars == <<cfgVars, evalVars, opVars, gaVars, refVars>>

\* ------------------------------------------------------------------ bounds
\* Longest individual handed to the evaluator, and largest max_path_length.
MaxLen == 3
\* Longest sequence handed to simplify and pad.
MaxSeqLen == 4
\* Largest max_path_length the crossover and mutation operators are called with.
MaxPathLength == 2
\* Generations the evolution loop of one-gene chromosomes is run for.
MaxGenerations == 3
\* How far beyond the grid extents is_wall is asked about.
ProbeMargin == 2

\* ------------------------------------------------------------------ maze.py
UP == "U"
DOWN == "D"
LEFT == "L"
RIGHT == "R"
Direction == {UP, DOWN, LEFT, RIGHT}

EMPTY == 0
WALL == 1

Position(r, c) == [row |-> r, col |-> c]

Abs(n) == IF n < 0 THEN -n ELSE n

\* Maze.__init__
Maze(grid, start, end) ==
    [grid |-> grid,
     rows |-> Len(grid),
     cols |-> IF grid # <<>> THEN Len(grid[1]) ELSE 0,
     start |-> start,
     end |-> end]

is_valid_position(m, pos) ==
    /\ 0 <= pos.row /\ pos.row < m.rows
    /\ 0 <= pos.col /\ pos.col < m.cols

\* A plausible slip: only cells of the grid can be walls.
is_wall_inside_only(m, pos) ==
    IF ~is_valid_position(m, pos)
    THEN FALSE
    ELSE m.grid[pos.row + 1][pos.col + 1] = WALL

is_wall(m, pos) ==
    IF ~is_valid_position(m, pos)
    THEN TRUE
    ELSE m.grid[pos.row + 1][pos.col + 1] = WALL

move(pos, direction) ==
    IF direction = UP THEN Position(pos.row - 1, pos.col)
    ELSE IF direction = DOWN THEN Position(pos.row + 1, pos.col)
    ELSE IF direction = LEFT THEN Position(pos.row, pos.col - 1)
    ELSE IF direction = RIGHT THEN Position(pos.row, pos.col + 1)
    ELSE pos

manhattan_distance(m, pos) ==
    Abs(pos.row - m.end.row) + Abs(pos.col - m.end.col)

\* ------------------------------------------------------------------ inputs
SeqsUpTo(S, n) == UNION {[1..k -> S] : k \in 0..n}

\* The grids the evaluator is run on: a single cell, a corridor, a 2x2 and a
\* 2x3 grid with a wall.
Grids ==
    { << <<0>> >>,
      << <<0, 0>> >>,
      << <<0, 0>>,
         <<1, 0>> >>,
      << <<0, 0, 0>>,
         <<0, 1, 0>> >> }

Cells(grid) ==
    {Position(r, c) : r \in 0..(Len(grid) - 1), c \in 0..(Len(grid[1]) - 1)}

\* Maze does not validate start and end: any cell of the grid, walls included.
Mazes ==
    UNION {{Maze(g, s, e) : s \in Cells(g), e \in Cells(g)} : g \in Grids}

\* ------------------------------------------------------------------
\* GASolver._evaluate_individual (ga_solver.py 87-141)

\* lines 94-97
InitSim(m) ==
    [position |-> m.start,
     collisions |-> 0,
     visited_positions |-> <<m.start>>,
     unique_positions |-> {m.start}]

\* A plausible slip: the collision is counted but the move is made anyway.
SimulateMoveNoReject(m, st, direction) ==
    LET new_position == move(st.position, direction) IN
    [position |-> new_position,
     collisions |-> IF is_wall(m, new_position) \/ ~is_valid_position(m, new_position)
                    THEN st.collisions + 1 ELSE st.collisions,
     visited_positions |-> Append(st.visited_positions, new_position),
     unique_positions |-> st.unique_positions \cup {new_position}]

\* lines 101-110: the body of the loop up to the goal test
SimulateMove(m, st, direction) ==
    LET new_position == move(st.position, direction) IN
    IF is_wall(m, new_position) \/ ~is_valid_position(m, new_position)
    THEN [st EXCEPT !.collisions = st.collisions + 1]
    ELSE [position |-> new_position,
          collisions |-> st.collisions,
          visited_positions |-> Append(st.visited_positions, new_position),
          unique_positions |-> st.unique_positions \cup {new_position}]

\* A plausible slip: the goal test is missing, the loop never breaks.
GoalReachedNever(m, st) == FALSE

\* lines 113-114
GoalReached(m, st) == st.position = m.end

\* A plausible slip: the exploration bonus of a failed path is left out.
ScoreNoExplorationBonus(m, mpl, st) ==
    LET distance_to_goal == manhattan_distance(m, st.position)
        unique_cells_visited == Cardinality(st.unique_positions)
        revisit_penalty == Len(st.visited_positions) - unique_cells_visited
    IN  IF st.position = m.end
        THEN <<st.collisions * 10 + revisit_penalty * 2, Len(st.visited_positions)>>
        ELSE <<st.collisions * 10 + distance_to_goal * 5 + revisit_penalty * 2, mpl>>

\* A plausible slip: the weights of the goal branch are swapped.
ScoreSwappedWeights(m, mpl, st) ==
    LET distance_to_goal == manhattan_distance(m, st.position)
        unique_cells_visited == Cardinality(st.unique_positions)
        revisit_penalty == Len(st.visited_positions) - unique_cells_visited
    IN  IF st.position = m.end
        THEN <<st.collisions * 2 + revisit_penalty * 10, Len(st.visited_positions)>>
        ELSE <<st.collisions * 10 + distance_to_goal * 5 + revisit_penalty * 2
                 - unique_cells_visited,
               mpl>>

\* A plausible slip: a failed path reports its own length, as a successful one
\* does, and the exploration bonus is added instead of subtracted.
ScoreFailureAsSuccess(m, mpl, st) ==
    LET distance_to_goal == manhattan_distance(m, st.position)
        unique_cells_visited == Cardinality(st.unique_positions)
        revisit_penalty == Len(st.visited_positions) - unique_cells_visited
    IN  IF st.position = m.end
        THEN <<st.collisions * 10 + revisit_penalty * 2, Len(st.visited_positions)>>
        ELSE <<st.collisions * 10 + distance_to_goal * 5 + revisit_penalty * 2
                 + unique_cells_visited,
               Len(st.visited_positions)>>

\* A plausible slip: the exploration bonus is applied in both branches.
ScoreBonusAlways(m, mpl, st) ==
    LET distance_to_goal == manhattan_distance(m, st.position)
        unique_cells_visited == Cardinality(st.unique_positions)
        revisit_penalty == Len(st.visited_positions) - unique_cells_visited
    IN  IF st.position = m.end
        THEN <<st.collisions * 10 + revisit_penalty * 2 - unique_cells_visited,
               Len(st.visited_positions)>>
        ELSE <<st.collisions * 10 + distance_to_goal * 5 + revisit_penalty * 2
                 - unique_cells_visited,
               mpl>>

\* lines 116-141
Score(m, mpl, st) ==
    LET distance_to_goal == manhattan_distance(m, st.position)
        unique_cells_visited == Cardinality(st.unique_positions)
        revisit_penalty == Len(st.visited_positions) - unique_cells_visited
    IN  IF st.position = m.end
        THEN LET path_length == Len(st.visited_positions)
             IN  <<st.collisions * 10 + revisit_penalty * 2, path_length>>
        ELSE LET exploration_bonus == -unique_cells_visited
             IN  <<st.collisions * 10 + distance_to_goal * 5 + revisit_penalty * 2
                     + exploration_bonus,
                   mpl>>

\* lines 99-114: the whole loop
RECURSIVE Simulate(_, _, _)
Simulate(m, ind, st) ==
    IF ind = <<>>
    THEN st
    ELSE LET st2 == SimulateMove(m, st, Head(ind))
         IN  IF GoalReached(m, st2) THEN st2 ELSE Simulate(m, Tail(ind), st2)

\* the evaluator as a function, as the toolbox calls it
evaluate_individual(m, mpl, ind) == Score(m, mpl, Simulate(m, ind, InitSim(m)))

\* ---- the parts of the state a specification does not use
NoGAConfig ==
    /\ population_size = 0
    /\ max_generations = 0
    /\ tournament_size = 0
    /\ early_stopping_generations = 0
    /\ gene_pool = {}

IdleEval ==
    /\ individual = <<>>
    /\ idx = 0
    /\ position = Position(0, 0)
    /\ collisions = 0
    /\ visited_positions = <<>>
    /\ unique_positions = {}
    /\ fitness = <<>>
    /\ pc = "idle"

IdleOps ==
    /\ op = "idle"
    /\ arg1 = <<>>
    /\ arg2 = <<>>
    /\ target_length = 0
    /\ result1 = <<>>
    /\ result2 = <<>>

IdleRefs ==
    /\ heap = <<>>
    /\ population_refs = <<>>
    /\ offspring_refs = <<>>
    /\ hof_refs = <<>>

IdleGA ==
    /\ IdleRefs
    /\ gaPc = "idle"
    /\ population = <<>>
    /\ offspring = <<>>
    /\ aspirants = <<>>
    /\ gen = 0
    /\ loop_i = 0
    /\ nevals = 0
    /\ halloffame = <<>>
    /\ logbook = <<>>
    /\ best_fitness_history = <<>>
    /\ generations_without_improvement = 0
    /\ best_path = <<>>

\* ---- the evaluator, one loop iteration per step
SimState ==
    [position |-> position,
     collisions |-> collisions,
     visited_positions |-> visited_positions,
     unique_positions |-> unique_positions]

InitEval ==
    /\ maze \in Mazes
    /\ max_path_length \in 0..MaxLen
    /\ NoGAConfig
    /\ individual \in SeqsUpTo(Direction, MaxLen)
    /\ idx = 0
    /\ position = InitSim(maze).position
    /\ collisions = InitSim(maze).collisions
    /\ visited_positions = InitSim(maze).visited_positions
    /\ unique_positions = InitSim(maze).unique_positions
    /\ fitness = <<>>
    /\ pc = "loop"
    /\ IdleOps
    /\ IdleGA

\* one iteration of `for direction in individual` (lines 100-114)
EvalStep ==
    /\ pc = "loop"
    /\ idx < Len(individual)
    /\ LET st2 == SimulateMove(maze, SimState, individual[idx + 1]) IN
        /\ position' = st2.position
        /\ collisions' = st2.collisions
        /\ visited_positions' = st2.visited_positions
        /\ unique_positions' = st2.unique_positions
        /\ pc' = IF GoalReached(maze, st2) THEN "break" ELSE "loop"
    /\ idx' = idx + 1
    /\ UNCHANGED <<cfgVars, individual, fitness, opVars, gaVars, refVars>>

\* the loop is over (exhausted or broken): lines 116-141
EvalReturn ==
    /\ \/ pc = "break"
       \/ pc = "loop" /\ idx = Len(individual)
    /\ fitness' = Score(maze, max_path_length, SimState)
    /\ pc' = "done"
    /\ UNCHANGED <<cfgVars, individual, idx, position, collisions,
                   visited_positions, unique_positions, opVars, gaVars, refVars>>

NextEval == EvalStep \/ EvalReturn

SpecEval == InitEval /\ [][NextEval]_vars

\* ------------------------------------------------------------------
\* GASolver.visualize_path (ga_solver.py 395-446)

\* lines 407-408
InitTrace(m) == [position |-> m.start, path_positions |-> <<m.start>>]

\* A plausible slip: the path is drawn through walls and off the grid.
TraceMoveNoReject(m, st, direction) ==
    LET new_position == move(st.position, direction) IN
    [position |-> new_position,
     path_positions |-> Append(st.path_positions, new_position)]

\* lines 412-417: the body of the tracing loop up to the goal test
TraceMove(m, st, direction) ==
    LET new_position == move(st.position, direction) IN
    IF ~is_wall(m, new_position) /\ is_valid_position(m, new_position)
    THEN [position |-> new_position,
          path_positions |-> Append(st.path_positions, new_position)]
    ELSE st

\* lines 411-421: the whole tracing loop
RECURSIVE TracePath(_, _, _)
TracePath(m, path, st) ==
    IF path = <<>>
    THEN st
    ELSE LET st2 == TraceMove(m, st, Head(path))
         IN  IF st2.position = m.end THEN st2 ELSE TracePath(m, Tail(path), st2)

\* lines 423-438: the mark of cell (i, j); "#" stands for the block character
Mark(m, st, i, j) ==
    LET pos == Position(i, j) IN
    IF pos = m.start THEN "S"
    ELSE IF pos = m.end THEN "E"
    ELSE IF \E k \in DOMAIN st.path_positions : st.path_positions[k] = pos THEN "*"
    ELSE IF m.grid[i + 1][j + 1] = 1 THEN "#"
    ELSE "."

\* visualize_path: the rows of marks, the path positions, and the values of
\* the "Path length" and "Reached goal" lines
visualize_path(m, path) ==
    LET st == TracePath(m, path, InitTrace(m)) IN
    [rows |-> [r \in 1..Len(m.grid) |->
                 [c \in 1..Len(m.grid[r]) |-> Mark(m, st, r - 1, c - 1)]],
     path_positions |-> st.path_positions,
     path_length |-> Len(st.path_positions),
     reached_goal |-> (st.position = m.end)]

\* visualize_path is called on the individual the evaluator has scored
CallVisualize ==
    /\ pc = "done"
    /\ op = "idle"
    /\ op' = "visualize"
    /\ result1' = visualize_path(maze, individual)
    /\ UNCHANGED <<cfgVars, evalVars, arg1, arg2, target_length, result2, gaVars, refVars>>

NextVisualize == NextEval \/ CallVisualize

SpecVisualize == InitEval /\ [][NextVisualize]_vars

\* ------------------------------------------------------------------
\* Maze.is_wall called on its own (maze.py 53-57)

\* The mazes is_wall is asked about: those of Mazes, a grid that also holds
\* the cell values START = 2 and END = 3, and the empty grid.
WallMazes ==
    Mazes
    \cup {Maze(<< <<2, 1, 0>>, <<0, 1, 3>> >>, Position(0, 0), Position(1, 2)),
          Maze(<<>>, Position(0, 0), Position(0, 0))}

\* the positions asked about: the grid and ProbeMargin cells around it
Probes(m) ==
    {Position(r, c) : r \in (0 - ProbeMargin)..(m.rows - 1 + ProbeMargin),
                      c \in (0 - ProbeMargin)..(m.cols - 1 + ProbeMargin)}

InitWall ==
    /\ maze \in WallMazes
    /\ max_path_length = 0
    /\ NoGAConfig
    /\ IdleEval
    /\ IdleGA
    /\ op = "ready"
    /\ arg1 = <<>>
    /\ arg2 = <<>>
    /\ target_length = 0
    /\ result1 = <<>>
    /\ result2 = <<>>

\* maze.is_wall(pos) and maze.is_valid_position(pos) are called
CallIsWall ==
    /\ op \in {"ready", "is_wall"}
    /\ \E pos \in Probes(maze) :
        /\ arg1' = <<pos>>
        /\ result1' = <<is_wall(maze, pos)>>
        /\ result2' = <<is_valid_position(maze, pos)>>
    /\ op' = "is_wall"
    /\ UNCHANGED <<cfgVars, evalVars, arg2, target_length, gaVars, refVars>>

NextWall == CallIsWall

SpecWall == InitWall /\ [][NextWall]_vars

\* ------------------------------------------------------------------
\* The genetic operators (ga_solver.py 143-230)

\* A plausible slip: the table pairs a vertical move with a horizontal one.
OppositesCrossed(direction) ==
    CASE direction = UP -> LEFT
      [] direction = LEFT -> UP
      [] direction = DOWN -> RIGHT
      [] direction = RIGHT -> DOWN

\* A plausible slip: a move is cancelled by a repetition of itself.
SameDirection(direction) == direction

\* the `opposites` dict, lines 179-184
opposites(direction) ==
    CASE direction = UP -> DOWN
      [] direction = DOWN -> UP
      [] direction = LEFT -> RIGHT
      [] direction = RIGHT -> LEFT

\* lines 186-192: the loop over the rest of the individual, `simplified`
\* being the stack built so far
RECURSIVE SimplifyLoop(_, _)
SimplifyLoop(rest, simplified) ==
    IF rest = <<>>
    THEN simplified
    ELSE LET direction == Head(rest) IN
         IF simplified # <<>> /\ simplified[Len(simplified)] = opposites(direction)
         THEN SimplifyLoop(Tail(rest), SubSeq(simplified, 1, Len(simplified) - 1))
         ELSE SimplifyLoop(Tail(rest), Append(simplified, direction))

\* A plausible slip: a move is compared with the move before it in the
\* input, not with the top of the stack, so only pairs adjacent in the input
\* cancel.
RECURSIVE SimplifyAdjacentOnly(_)
SimplifyAdjacentOnly(ind) ==
    IF Len(ind) < 2
    THEN ind
    ELSE IF ind[1] = opposites(ind[2])
         THEN SimplifyAdjacentOnly(SubSeq(ind, 3, Len(ind)))
         ELSE <<ind[1]>> \o SimplifyAdjacentOnly(Tail(ind))

\* GASolver._simplify_individual (lines 166-194)
simplify_individual(ind) == SimplifyLoop(ind, <<>>)

\* A plausible slip: the result is cut to target_length.
PadTruncating(ind, target, rnd) ==
    SubSeq(ind \o rnd, 1, target)

\* GASolver._pad_individual (lines 196-209); rnd holds the successive results
\* of random.choice(directions)
RECURSIVE pad_individual(_, _, _)
pad_individual(ind, target, rnd) ==
    IF Len(ind) < target
    THEN pad_individual(Append(ind, Head(rnd)), target, Tail(rnd))
    ELSE ind

\* the draws of random.choice a call pad_individual(ind, target, _) consumes
PadDraws(ind, target) ==
    [1..(IF Len(ind) < target THEN target - Len(ind) ELSE 0) -> Direction]

Min(a, b) == IF a <= b THEN a ELSE b

\* deap.tools.cxTwoPoint, called at line 154. size = min(len(ind1), len(ind2));
\* r1 = random.randint(1, size) and r2 = random.randint(1, size - 1) are its
\* two draws; the slices [cxpoint1:cxpoint2] are exchanged.
cxTwoPoint(ind1, ind2, r1, r2) ==
    LET cxpoint1 == IF r2 >= r1 THEN r1 ELSE r2
        cxpoint2 == IF r2 >= r1 THEN r2 + 1 ELSE r1
        Swapped(a, b) ==
            [i \in DOMAIN a |-> IF cxpoint1 < i /\ i <= cxpoint2 THEN b[i] ELSE a[i]]
    IN  <<Swapped(ind1, ind2), Swapped(ind2, ind1)>>

\* random.randint(1, size - 1) raises ValueError on an empty range
cxTwoPointRaises(ind1, ind2) == Min(Len(ind1), Len(ind2)) < 2

\* A plausible slip: the offspring are simplified and not padded back.
CrossoverNoPad(ind1, ind2, mpl, r1, r2, rnd1, rnd2) ==
    LET cx == cxTwoPoint(ind1, ind2, r1, r2)
    IN  <<simplify_individual(cx[1]), simplify_individual(cx[2])>>

\* GASolver._crossover_individuals (lines 143-164)
crossover_individuals(ind1, ind2, mpl, r1, r2, rnd1, rnd2) ==
    LET cx == cxTwoPoint(ind1, ind2, r1, r2)
        simplified1 == simplify_individual(cx[1])
        simplified2 == simplify_individual(cx[2])
    IN  <<pad_individual(simplified1, mpl, rnd1),
          pad_individual(simplified2, mpl, rnd2)>>

\* the outcome of `random.random() < indpb` and random.choice for one gene:
\* the gene is kept or replaced by a direction
NoMutation == "keep"
GeneDraws(ind) == [DOMAIN ind -> Direction \cup {NoMutation}]

\* lines 221-224
MutateGenes(ind, draws) ==
    [i \in DOMAIN ind |-> IF draws[i] = NoMutation THEN ind[i] ELSE draws[i]]

\* GASolver._mutate_individual (lines 211-230)
mutate_individual(ind, mpl, draws, rnd) ==
    LET simplified == simplify_individual(MutateGenes(ind, draws))
    IN  pad_individual(simplified, mpl, rnd)

\* ---- one call of an operator on drawn arguments
InitOps ==
    /\ maze = Maze(<< <<0>> >>, Position(0, 0), Position(0, 0))
    /\ max_path_length \in 0..MaxPathLength
    /\ NoGAConfig
    /\ IdleEval
    /\ IdleGA
    /\ op = "ready"
    /\ arg1 \in SeqsUpTo(Direction, MaxSeqLen)
    /\ arg2 = <<>>
    /\ target_length = 0
    /\ result1 = <<>>
    /\ result2 = <<>>

CallSimplify ==
    /\ op = "ready"
    /\ op' = "simplify"
    /\ result1' = simplify_individual(arg1)
    /\ UNCHANGED <<cfgVars, evalVars, gaVars, refVars, arg1, arg2, target_length, result2>>

\* simplify applied to its own result
CallSimplifyAgain ==
    /\ op = "simplify"
    /\ op' = "simplify_twice"
    /\ result2' = simplify_individual(result1)
    /\ UNCHANGED <<cfgVars, evalVars, gaVars, refVars, arg1, arg2, target_length, result1>>

CallPad ==
    /\ op = "ready"
    /\ \E target \in 0..MaxSeqLen :
        \E rnd \in PadDraws(arg1, target) :
            /\ target_length' = target
            /\ result1' = pad_individual(arg1, target, rnd)
    /\ op' = "pad"
    /\ UNCHANGED <<cfgVars, evalVars, gaVars, refVars, arg1, arg2, result2>>

CallMate ==
    /\ op = "ready"
    /\ Len(arg1) <= max_path_length
    /\ \E other \in SeqsUpTo(Direction, max_path_length) :
        /\ arg2' = other
        /\ IF cxTwoPointRaises(arg1, other)
           THEN /\ op' = "raised"
                /\ UNCHANGED <<result1, result2>>
           ELSE LET size == Min(Len(arg1), Len(other)) IN
                \E r1 \in 1..size, r2 \in 1..(size - 1) :
                    LET cx == cxTwoPoint(arg1, other, r1, r2) IN
                    \E rnd1 \in PadDraws(simplify_individual(cx[1]), max_path_length),
                       rnd2 \in PadDraws(simplify_individual(cx[2]), max_path_length) :
                        LET res == crossover_individuals(arg1, other, max_path_length,
                                                         r1, r2, rnd1, rnd2)
                        IN  /\ result1' = res[1]
                            /\ result2' = res[2]
                            /\ op' = "mate"
    /\ UNCHANGED <<cfgVars, evalVars, gaVars, refVars, arg1, target_length>>

CallMutate ==
    /\ op = "ready"
    /\ Len(arg1) <= max_path_length
    /\ \E draws \in GeneDraws(arg1) :
        \E rnd \in PadDraws(simplify_individual(MutateGenes(arg1, draws)),
                            max_path_length) :
            result1' = mutate_individual(arg1, max_path_length, draws, rnd)
    /\ op' = "mutate"
    /\ UNCHANGED <<cfgVars, evalVars, gaVars, refVars, arg1, arg2, target_length, result2>>

NextOps == CallSimplify \/ CallSimplifyAgain \/ CallPad \/ CallMate \/ CallMutate

SpecOps == InitOps /\ [][NextOps]_vars

\* ------------------------------------------------------------------
\* GASolver.solve and _ea_simple_with_early_stopping (ga_solver.py 232-393)

\* early_stopping_min_change = 0.001, as a fraction
MinChangeNum == 1
MinChangeDen == 1000

\* the mazes the solver is constructed with
GAMaze == Maze(<< <<0, 0>>, <<1, 0>> >>, Position(0, 0), Position(1, 1))
OpenMaze == Maze(<< <<0, 0>>, <<0, 0>> >>, Position(0, 0), Position(0, 1))

\* every chromosome of n genes
Chromosomes(n) == [1..n -> Direction]

\* Two-gene chromosomes the evolution loop starts from: one that reaches the
\* goal, one that collides first, one that simplify cancels, one that runs
\* into the wall. Selection, crossover and mutation produce the others.
SeedChromosomes == {<<RIGHT, DOWN>>, <<UP, RIGHT>>, <<RIGHT, LEFT>>, <<DOWN, DOWN>>}

\* Four-gene chromosomes on OpenMaze: one oscillates next to the goal without
\* a collision, one collides and then steps onto the goal.
OscillatingChromosomes == {<<DOWN, UP, DOWN, UP>>, <<UP, RIGHT, RIGHT, RIGHT>>}

\* The configurations the evolution loop is run with (the arguments of
\* __init__, ga_solver.py 40-48). Chromosomes of one gene run MaxGenerations
\* generations with early_stopping_generations = 1 and one generation more
\* with early_stopping_generations = 2; chromosomes of two genes, whose
\* offspring are far more numerous, run one generation from the seed
\* chromosomes; the oscillating chromosomes run no generation after the
\* initial one.
Configs ==
    { [maze |-> GAMaze, max_path_length |-> 1, population_size |-> 2,
       max_generations |-> MaxGenerations, tournament_size |-> 2,
       early_stopping_generations |-> 1, gene_pool |-> Chromosomes(1)],
      [maze |-> GAMaze, max_path_length |-> 1, population_size |-> 2,
       max_generations |-> MaxGenerations + 1, tournament_size |-> 2,
       early_stopping_generations |-> 2, gene_pool |-> Chromosomes(1)],
      [maze |-> GAMaze, max_path_length |-> 2, population_size |-> 2,
       max_generations |-> 1, tournament_size |-> 2,
       early_stopping_generations |-> 1, gene_pool |-> SeedChromosomes],
      [maze |-> OpenMaze, max_path_length |-> 4, population_size |-> 2,
       max_generations |-> 0, tournament_size |-> 2,
       early_stopping_generations |-> 1, gene_pool |-> OscillatingChromosomes] }

\* The configurations selection alone is run with, tournament_size =
\* population_size: every initial population of chromosomes up to
\* MaxPathLength genes on GAMaze, and the oscillating chromosomes on OpenMaze.
SelectConfigs ==
    { [maze |-> GAMaze, max_path_length |-> n, population_size |-> 2,
       max_generations |-> 1, tournament_size |-> 2,
       early_stopping_generations |-> 1, gene_pool |-> Chromosomes(n)]
        : n \in 1..MaxPathLength }
    \cup
    { [maze |-> OpenMaze, max_path_length |-> 4, population_size |-> 2,
       max_generations |-> 1, tournament_size |-> 2,
       early_stopping_generations |-> 1, gene_pool |-> OscillatingChromosomes] }

\* creator.Individual: a list with a fitness; fitness.values is () when invalid
Individual(genes, fit) == [genes |-> genes, fitness |-> fit]

FitnessValid(ind) == ind.fitness # <<>>

\* A plausible slip: the fitness is created with weights (1.0, 1.0), so the
\* largest values are the best.
FitnessGreaterMaximizing(f, g) ==
    \/ f[1] > g[1]
    \/ f[1] = g[1] /\ f[2] > g[2]

\* deap.base.Fitness.__gt__ with weights (-1.0, -1.0) (line 62): the weighted
\* values (-penalty, -length_term) are compared as tuples
FitnessGreater(f, g) ==
    \/ f[1] < g[1]
    \/ f[1] = g[1] /\ f[2] < g[2]

\* max(aspirants, key=attrgetter("fitness")): the position in inds of the first
\* greatest element, scanning from position k with `best` the best so far
RECURSIVE MaxByFitness(_, _, _)
MaxByFitness(inds, k, best) ==
    IF k > Len(inds)
    THEN best
    ELSE IF FitnessGreater(inds[k].fitness, inds[best].fitness)
         THEN MaxByFitness(inds, k + 1, k)
         ELSE MaxByFitness(inds, k + 1, best)

\* deap.tools.selTournament (registered at line 85) for one of its k rounds:
\* draws[j] is the index random.choice picked for the j-th aspirant; the
\* result is the index in pop of the chosen individual
selTournament(pop, draws) ==
    LET chosen == [j \in DOMAIN draws |-> pop[draws[j]]]
    IN  draws[MaxByFitness(chosen, 2, 1)]

\* stats: the composite scalar f[0] + f[1] of lines 348-350
Composite(ind) == ind.fitness[1] + ind.fitness[2]

RECURSIVE SumComposite(_)
SumComposite(pop) ==
    IF pop = <<>> THEN 0 ELSE Composite(Head(pop)) + SumComposite(Tail(pop))

MinComposite(pop) ==
    CHOOSE v \in {Composite(pop[k]) : k \in DOMAIN pop} :
        \A k \in DOMAIN pop : v <= Composite(pop[k])

MaxComposite(pop) ==
    CHOOSE v \in {Composite(pop[k]) : k \in DOMAIN pop} :
        \A k \in DOMAIN pop : v >= Composite(pop[k])

\* stats.compile and logbook.record (lines 269-270, 310-311); avg is kept as
\* the fraction sum / len
Record(g, n, pop) ==
    [gen |-> g,
     nevals |-> n,
     avg |-> <<SumComposite(pop), Len(pop)>>,
     min |-> MinComposite(pop),
     max |-> MaxComposite(pop)]

\* A plausible slip: the hall of fame is filled once and never replaced.
HofUpdateKeepsFirst(hof, pop, k) ==
    IF hof = <<>> THEN <<pop[1]>> ELSE hof

\* deap.tools.HallOfFame(1).update (lines 267, 304): an empty hall takes
\* population[0]; afterwards an individual replaces the member when its
\* fitness is greater and its genes differ from the member's
RECURSIVE HofUpdate(_, _, _)
HofUpdate(hof, pop, k) ==
    IF k > Len(pop)
    THEN hof
    ELSE IF hof = <<>>
         THEN HofUpdate(<<pop[1]>>, pop, k + 1)
         ELSE IF /\ FitnessGreater(pop[k].fitness, hof[1].fitness)
                 /\ pop[k].genes # hof[1].genes
              THEN HofUpdate(<<pop[k]>>, pop, k + 1)
              ELSE HofUpdate(hof, pop, k + 1)

\* toolbox.evaluate on every individual whose fitness is invalid
EvaluateInvalid(pop) ==
    [k \in DOMAIN pop |->
        IF FitnessValid(pop[k])
        THEN pop[k]
        ELSE Individual(pop[k].genes,
                        evaluate_individual(maze, max_path_length, pop[k].genes))]

\* A plausible slip: the logbook is given len(offspring), not len(invalid_ind).
InvalidCountAll(pop) == Len(pop)

\* len(invalid_ind), lines 297 and 311
InvalidCount(pop) == Cardinality({k \in DOMAIN pop : ~FitnessValid(pop[k])})

Configured(c) ==
    /\ maze = c.maze
    /\ max_path_length = c.max_path_length
    /\ population_size = c.population_size
    /\ max_generations = c.max_generations
    /\ tournament_size = c.tournament_size
    /\ early_stopping_generations = c.early_stopping_generations
    /\ gene_pool = c.gene_pool

\* the solver is constructed, solve is about to run
Constructed ==
    /\ IdleEval
    /\ IdleOps
    /\ IdleRefs
    /\ gaPc = "start"
    /\ population = <<>>
    /\ offspring = <<>>
    /\ aspirants = <<>>
    /\ gen = 0
    /\ loop_i = 0
    /\ nevals = 0
    /\ halloffame = <<>>
    /\ logbook = <<>>
    /\ best_fitness_history = <<>>
    /\ generations_without_improvement = 0
    /\ best_path = <<>>

InitGA == (\E c \in Configs : Configured(c)) /\ Constructed

InitSelect == (\E c \in SelectConfigs : Configured(c)) /\ Constructed

\* solve, line 344, and lines 258-276: the random initial population is
\* created and evaluated, the hall of fame and the logbook take it
SolveStart ==
    /\ gaPc = "start"
    /\ \E genes \in [1..population_size -> gene_pool] :
        LET pop == EvaluateInvalid([k \in 1..population_size |->
                                        Individual(genes[k], <<>>)])
        IN  /\ population' = pop
            /\ halloffame' = HofUpdate(<<>>, pop, 1)
            /\ logbook' = <<Record(0, Len(pop), pop)>>
    /\ best_fitness_history' = <<>>
    /\ generations_without_improvement' = 0
    /\ gen' = 1
    /\ gaPc' = IF 1 <= max_generations THEN "select" ELSE "return"
    /\ UNCHANGED <<cfgVars, evalVars, opVars, refVars, offspring, aspirants, loop_i,
                   nevals, best_path>>

\* lines 281-282: len(population) tournaments, the chosen ones cloned
Select ==
    /\ gaPc = "select"
    /\ \E draws \in [1..Len(population) -> [1..tournament_size -> 1..Len(population)]] :
        /\ aspirants' = draws
        /\ offspring' = [k \in 1..Len(population) |->
                            population[selTournament(population, draws[k])]]
    /\ loop_i' = 1
    /\ gaPc' = "mate"
    /\ UNCHANGED <<cfgVars, evalVars, opVars, refVars, population, gen, nevals,
                   halloffame, logbook, best_fitness_history,
                   generations_without_improvement, best_path>>

\* lines 285-289: one iteration of `for i in range(1, len(offspring), 2)`, on
\* offspring[i - 1] and offspring[i] of the source
MatePair ==
    /\ gaPc = "mate"
    /\ loop_i < Len(offspring)
    /\ \/ \* random.random() >= cxpb
          /\ loop_i' = loop_i + 2
          /\ UNCHANGED <<offspring, gaPc>>
       \/ \* random.random() < cxpb, and cxTwoPoint cannot draw its cut points
          /\ cxTwoPointRaises(offspring[loop_i].genes, offspring[loop_i + 1].genes)
          /\ gaPc' = "raised"
          /\ UNCHANGED <<offspring, loop_i>>
       \/ \* random.random() < cxpb
          /\ ~cxTwoPointRaises(offspring[loop_i].genes, offspring[loop_i + 1].genes)
          /\ LET g1 == offspring[loop_i].genes
                 g2 == offspring[loop_i + 1].genes
                 size == Min(Len(g1), Len(g2))
             IN  \E r1 \in 1..size, r2 \in 1..(size - 1) :
                    LET cx == cxTwoPoint(g1, g2, r1, r2) IN
                    \E rnd1 \in PadDraws(simplify_individual(cx[1]), max_path_length),
                       rnd2 \in PadDraws(simplify_individual(cx[2]), max_path_length) :
                        LET res == crossover_individuals(g1, g2, max_path_length,
                                                         r1, r2, rnd1, rnd2)
                        IN  offspring' = [offspring EXCEPT
                                            ![loop_i] = Individual(res[1], <<>>),
                                            ![loop_i + 1] = Individual(res[2], <<>>)]
          /\ loop_i' = loop_i + 2
          /\ UNCHANGED gaPc
    /\ aspirants' = <<>>
    /\ UNCHANGED <<cfgVars, evalVars, opVars, refVars, population, gen, nevals,
                   halloffame, logbook, best_fitness_history,
                   generations_without_improvement, best_path>>

\* the crossover loop is over
MateDone ==
    /\ gaPc = "mate"
    /\ loop_i >= Len(offspring)
    /\ gaPc' = "mutate"
    /\ loop_i' = 0
    /\ aspirants' = <<>>
    /\ UNCHANGED <<cfgVars, evalVars, opVars, refVars, population, offspring, gen,
                   nevals, halloffame, logbook, best_fitness_history,
                   generations_without_improvement, best_path>>

\* lines 291-294: one iteration of `for i in range(len(offspring))`, on
\* offspring[i] of the source
MutateOne ==
    /\ gaPc = "mutate"
    /\ loop_i < Len(offspring)
    /\ \/ \* random.random() >= mutpb
          UNCHANGED offspring
       \/ \* random.random() < mutpb
          LET g == offspring[loop_i + 1].genes IN
          \E draws \in GeneDraws(g) :
            \E rnd \in PadDraws(simplify_individual(MutateGenes(g, draws)),
                                max_path_length) :
                offspring' = [offspring EXCEPT ![loop_i + 1] =
                    Individual(mutate_individual(g, max_path_length, draws, rnd), <<>>)]
    /\ loop_i' = loop_i + 1
    /\ gaPc' = IF loop_i + 1 < Len(offspring) THEN "mutate" ELSE "evaluate"
    /\ UNCHANGED <<cfgVars, evalVars, opVars, refVars, population, aspirants, gen,
                   nevals, halloffame, logbook, best_fitness_history,
                   generations_without_improvement, best_path>>

\* lines 297-300: the offspring with an invalid fitness are evaluated
EvaluateOffspring ==
    /\ gaPc = "evaluate"
    /\ nevals' = InvalidCount(offspring)
    /\ offspring' = EvaluateInvalid(offspring)
    /\ gaPc' = "record"
    /\ UNCHANGED <<cfgVars, evalVars, opVars, refVars, population, aspirants, gen,
                   loop_i, halloffame, logbook, best_fitness_history,
                   generations_without_improvement, best_path>>

\* A plausible slip: the first generation of the loop, which has no previous
\* minimum to compare with, counts as a generation without improvement.
StagnationCountsFirst(history, count) ==
    IF Len(history) > 1
    THEN LET improvement == history[Len(history) - 1] - history[Len(history)]
         IN  IF improvement * MinChangeDen < MinChangeNum THEN count + 1 ELSE 0
    ELSE count + 1

\* A plausible slip: the counter is never reset by an improvement.
StagnationNeverResets(history, count) ==
    IF Len(history) > 1
    THEN LET improvement == history[Len(history) - 1] - history[Len(history)]
         IN  IF improvement * MinChangeDen < MinChangeNum THEN count + 1 ELSE count
    ELSE count

\* lines 319-324: the stagnation counter after this generation's minimum
Stagnation(history, count) ==
    IF Len(history) > 1
    THEN LET improvement == history[Len(history) - 1] - history[Len(history)]
         IN  IF improvement * MinChangeDen < MinChangeNum THEN count + 1 ELSE 0
    ELSE count

\* lines 302-330: hall of fame, replacement, statistics and the early
\* stopping check that end a generation
FinishGeneration ==
    /\ gaPc = "record"
    /\ halloffame' = HofUpdate(halloffame, offspring, 1)
    /\ population' = offspring
    /\ LET record == Record(gen, nevals, offspring)
           history == Append(best_fitness_history, record.min)
           count == Stagnation(history, generations_without_improvement)
       IN  /\ logbook' = Append(logbook, record)
           /\ best_fitness_history' = history
           /\ generations_without_improvement' = count
           /\ IF Len(history) > 1 /\ count >= early_stopping_generations
              THEN /\ gaPc' = "return"
                   /\ gen' = gen
              ELSE IF gen + 1 <= max_generations
                   THEN /\ gaPc' = "select"
                        /\ gen' = gen + 1
                   ELSE /\ gaPc' = "return"
                        /\ gen' = gen
    /\ UNCHANGED <<cfgVars, evalVars, opVars, refVars, offspring, aspirants, loop_i,
                   nevals, best_path>>

\* solve, lines 376-393
SolveReturn ==
    /\ gaPc = "return"
    /\ LET best_individual == halloffame[1]
       IN  best_path' = <<best_individual.genes, best_individual.fitness>>
    /\ gaPc' = "done"
    /\ UNCHANGED <<cfgVars, evalVars, opVars, refVars, population, offspring,
                   aspirants, gen, loop_i, nevals, halloffame, logbook,
                   best_fitness_history, generations_without_improvement>>

NextGA ==
    \/ SolveStart
    \/ Select
    \/ MatePair
    \/ MateDone
    \/ MutateOne
    \/ EvaluateOffspring
    \/ FinishGeneration
    \/ SolveReturn

SpecGA == InitGA /\ [][NextGA]_vars

\* selection on every evaluated initial population
NextSelect == SolveStart \/ Select

SpecSelect == InitSelect /\ [][NextSelect]_vars

\* the operators called on their own, or by the evolution loop
InitOpsGA == InitOps \/ InitGA

NextOpsGA == NextOps \/ NextGA

SpecOpsGA == InitOpsGA /\ [][NextOpsGA]_vars

\* ------------------------------------------------------------------
\* The evolution loop with object identity (ga_solver.py 258-332, 344-393):
\* the lists hold references, the operators change their arguments in place
\* (lines 154, 161-162, 223-228), toolbox.clone and HallOfFame.insert are
\* copy.deepcopy.

\* the individuals a list of references holds
Deref(h, refs) == [k \in DOMAIN refs |-> h[refs[k]]]

\* A plausible slip: the selected individuals are not cloned.
CloneShares(h, refs) == [heap |-> h, refs |-> refs]

\* list(map(toolbox.clone, offspring)), line 282: one new object per element
clone(h, refs) ==
    [heap |-> h \o Deref(h, refs),
     refs |-> [k \in DOMAIN refs |-> Len(h) + k]]

\* HallOfFame(1).update (lines 267, 304) on references: insert stores a deep
\* copy of the item, a new object
RECURSIVE RefHofUpdate(_, _, _, _)
RefHofUpdate(h, hof, refs, k) ==
    IF k > Len(refs)
    THEN [heap |-> h, hof |-> hof]
    ELSE IF hof = <<>>
         THEN RefHofUpdate(Append(h, h[refs[1]]), <<Len(h) + 1>>, refs, k + 1)
         ELSE IF /\ FitnessGreater(h[refs[k]].fitness, h[hof[1]].fitness)
                 /\ h[refs[k]].genes # h[hof[1]].genes
              THEN RefHofUpdate(Append(h, h[refs[k]]), <<Len(h) + 1>>, refs, k + 1)
              ELSE RefHofUpdate(h, hof, refs, k + 1)

\* lines 297-300 on the objects the list refers to
RefEvaluateInvalid(h, refs) ==
    [id \in DOMAIN h |->
        IF (\E k \in DOMAIN refs : refs[k] = id) /\ ~FitnessValid(h[id])
        THEN Individual(h[id].genes,
                        evaluate_individual(maze, max_path_length, h[id].genes))
        ELSE h[id]]

\* the configurations the loop is run with at the level of references
RefConfigs ==
    { [maze |-> GAMaze, max_path_length |-> 1, population_size |-> 2,
       max_generations |-> MaxGenerations, tournament_size |-> 2,
       early_stopping_generations |-> 1, gene_pool |-> Chromosomes(1)],
      [maze |-> GAMaze, max_path_length |-> 2, population_size |-> 2,
       max_generations |-> 1, tournament_size |-> 2,
       early_stopping_generations |-> 1, gene_pool |-> SeedChromosomes] }

InitRefs == (\E c \in RefConfigs : Configured(c)) /\ Constructed

\* solve, line 344, and lines 258-276
RefSolveStart ==
    /\ gaPc = "start"
    /\ \E genes \in [1..population_size -> gene_pool] :
        LET refs == [k \in 1..population_size |-> k]
            h == RefEvaluateInvalid([k \in 1..population_size |->
                                        Individual(genes[k], <<>>)], refs)
            upd == RefHofUpdate(h, <<>>, refs, 1)
        IN  /\ heap' = upd.heap
            /\ population_refs' = refs
            /\ hof_refs' = upd.hof
            /\ logbook' = <<Record(0, Len(refs), Deref(h, refs))>>
    /\ best_fitness_history' = <<>>
    /\ generations_without_improvement' = 0
    /\ gen' = 1
    /\ gaPc' = IF 1 <= max_generations THEN "select" ELSE "return"
    /\ UNCHANGED <<cfgVars, evalVars, opVars, population, offspring, halloffame,
                   aspirants, loop_i, nevals, best_path, offspring_refs>>

\* line 281: selection returns references to individuals of the population
RefSelect ==
    /\ gaPc = "select"
    /\ \E draws \in [1..Len(population_refs) ->
                        [1..tournament_size -> 1..Len(population_refs)]] :
        offspring_refs' =
            [k \in 1..Len(population_refs) |->
                population_refs[selTournament(Deref(heap, population_refs), draws[k])]]
    /\ gaPc' = "clone"
    /\ UNCHANGED <<cfgVars, evalVars, opVars, population, offspring, halloffame,
                   aspirants, gen, loop_i, nevals, logbook, best_fitness_history,
                   generations_without_improvement, best_path, heap,
                   population_refs, hof_refs>>

\* line 282
RefClone ==
    /\ gaPc = "clone"
    /\ LET c == clone(heap, offspring_refs)
       IN  /\ heap' = c.heap
           /\ offspring_refs' = c.refs
    /\ loop_i' = 1
    /\ gaPc' = "mate"
    /\ UNCHANGED <<cfgVars, evalVars, opVars, population, offspring, halloffame,
                   aspirants, gen, nevals, logbook, best_fitness_history,
                   generations_without_improvement, best_path, population_refs,
                   hof_refs>>

\* lines 285-289: one iteration of the crossover loop; toolbox.mate changes
\* the two objects in place and their fitness values are deleted
RefMatePair ==
    /\ gaPc = "mate"
    /\ loop_i < Len(offspring_refs)
    /\ LET id1 == offspring_refs[loop_i]
           id2 == offspring_refs[loop_i + 1]
           g1 == heap[id1].genes
           g2 == heap[id2].genes
           size == Min(Len(g1), Len(g2))
       IN  \/ \* random.random() >= cxpb
              /\ loop_i' = loop_i + 2
              /\ UNCHANGED <<heap, gaPc>>
           \/ \* random.random() < cxpb, and cxTwoPoint cannot draw its cut points
              /\ cxTwoPointRaises(g1, g2)
              /\ gaPc' = "raised"
              /\ UNCHANGED <<heap, loop_i>>
           \/ \* random.random() < cxpb
              /\ ~cxTwoPointRaises(g1, g2)
              /\ \E r1 \in 1..size, r2 \in 1..(size - 1) :
                    LET cx == cxTwoPoint(g1, g2, r1, r2) IN
                    \E rnd1 \in PadDraws(simplify_individual(cx[1]), max_path_length),
                       rnd2 \in PadDraws(simplify_individual(cx[2]), max_path_length) :
                        LET res == crossover_individuals(g1, g2, max_path_length,
                                                         r1, r2, rnd1, rnd2)
                            h1 == [heap EXCEPT ![id1] = Individual(res[1], <<>>)]
                        IN  heap' = [h1 EXCEPT ![id2] = Individual(res[2], <<>>)]
              /\ loop_i' = loop_i + 2
              /\ UNCHANGED gaPc
    /\ UNCHANGED <<cfgVars, evalVars, opVars, population, offspring, halloffame,
                   aspirants, gen, nevals, logbook, best_fitness_history,
                   generations_without_improvement, best_path, population_refs,
                   offspring_refs, hof_refs>>

\* the crossover loop is over
RefMateDone ==
    /\ gaPc = "mate"
    /\ loop_i >= Len(offspring_refs)
    /\ gaPc' = "mutate"
    /\ loop_i' = 0
    /\ UNCHANGED <<cfgVars, evalVars, opVars, population, offspring, halloffame,
                   aspirants, gen, nevals, logbook, best_fitness_history,
                   generations_without_improvement, best_path, refVars>>

\* lines 291-294: one iteration of the mutation loop; toolbox.mutate changes
\* the object in place and its fitness values are deleted
RefMutateOne ==
    /\ gaPc = "mutate"
    /\ loop_i < Len(offspring_refs)
    /\ \/ \* random.random() >= mutpb
          UNCHANGED heap
       \/ \* random.random() < mutpb
          LET id == offspring_refs[loop_i + 1]
              g == heap[id].genes
          IN  \E draws \in GeneDraws(g) :
                \E rnd \in PadDraws(simplify_individual(MutateGenes(g, draws)),
                                    max_path_length) :
                    heap' = [heap EXCEPT ![id] =
                        Individual(mutate_individual(g, max_path_length, draws, rnd),
                                   <<>>)]
    /\ loop_i' = loop_i + 1
    /\ gaPc' = IF loop_i + 1 < Len(offspring_refs) THEN "mutate" ELSE "evaluate"
    /\ UNCHANGED <<cfgVars, evalVars, opVars, population, offspring, halloffame,
                   aspirants, gen, nevals, logbook, best_fitness_history,
                   generations_without_improvement, best_path, population_refs,
                   offspring_refs, hof_refs>>

\* lines 297-300
RefEvaluateOffspring ==
    /\ gaPc = "evaluate"
    /\ nevals' = InvalidCount(Deref(heap, offspring_refs))
    /\ heap' = RefEvaluateInvalid(heap, offspring_refs)
    /\ gaPc' = "record"
    /\ UNCHANGED <<cfgVars, evalVars, opVars, population, offspring, halloffame,
                   aspirants, gen, loop_i, logbook, best_fitness_history,
                   generations_without_improvement, best_path, population_refs,
                   offspring_refs, hof_refs>>

\* lines 302-330: the hall of fame copies what it takes, population[:] =
\* offspring makes the population hold the offspring objects themselves
RefFinishGeneration ==
    /\ gaPc = "record"
    /\ LET upd == RefHofUpdate(heap, hof_refs, offspring_refs, 1)
       IN  /\ heap' = upd.heap
           /\ hof_refs' = upd.hof
    /\ population_refs' = offspring_refs
    /\ LET record == Record(gen, nevals, Deref(heap, offspring_refs))
           history == Append(best_fitness_history, record.min)
           count == Stagnation(history, generations_without_improvement)
       IN  /\ logbook' = Append(logbook, record)
           /\ best_fitness_history' = history
           /\ generations_without_improvement' = count
           /\ IF Len(history) > 1 /\ count >= early_stopping_generations
              THEN /\ gaPc' = "return"
                   /\ gen' = gen
              ELSE IF gen + 1 <= max_generations
                   THEN /\ gaPc' = "select"
                        /\ gen' = gen + 1
                   ELSE /\ gaPc' = "return"
                        /\ gen' = gen
    /\ UNCHANGED <<cfgVars, evalVars, opVars, population, offspring, halloffame,
                   aspirants, loop_i, nevals, best_path, offspring_refs>>

\* solve, lines 376-393
RefSolveReturn ==
    /\ gaPc = "return"
    /\ LET best_individual == heap[hof_refs[1]]
       IN  best_path' = <<best_individual.genes, best_individual.fitness>>
    /\ gaPc' = "done"
    /\ UNCHANGED <<cfgVars, evalVars, opVars, population, offspring, halloffame,
                   aspirants, gen, loop_i, nevals, logbook, best_fitness_history,
                   generations_without_improvement, refVars>>

NextRefs ==
    \/ RefSolveStart
    \/ RefSelect
    \/ RefClone
    \/ RefMatePair
    \/ RefMateDone
    \/ RefMutateOne
    \/ RefEvaluateOffspring
    \/ RefFinishGeneration
    \/ RefSolveReturn

SpecRefs == InitRefs /\ [][NextRefs]_vars

\* ------------------------------------------------------------------
\* Claims about the evaluator (SpecEval)

\* the set of elements of a sequence
Range(s) == {s[i] : i \in DOMAIN s}

\* steps of a trace that revisit an already-seen cell
Revisits(v) == Cardinality({i \in DOMAIN v : \E j \in 1..(i - 1) : v[j] = v[i]})

\* pos is off the grid or on a cell marked 1, read directly from the grid
Blocked(pos) ==
    \/ pos.row < 0 \/ pos.row >= Len(maze.grid)
    \/ pos.col < 0 \/ pos.col >= Len(maze.grid[1])
    \/ maze.grid[pos.row + 1][pos.col + 1] = 1

\* the candidate position of the move the loop is about to simulate
Candidate == move(position, individual[idx + 1])

AtGoal == position = maze.end

Returned == pc = "done"

\* C1, first part: a move whose candidate position is a wall or out of
\* bounds adds exactly one collision and leaves position and trace alone.
C1_Rejection ==
    (pc = "loop" /\ idx < Len(individual) /\ Blocked(Candidate))
        => /\ collisions' = collisions + 1
           /\ position' = position
           /\ visited_positions' = visited_positions

\* C1, second part: from an in-bounds non-wall start, the current position is
\* in bounds and not a wall at every step.
C1_PositionLegal == ~Blocked(maze.start) => ~Blocked(position)

\* C1: in the evaluator, for every maze whose start is an in-bounds non-wall
\* cell and every individual, a move into a wall or out of bounds is rejected
\* (collisions + 1, position and visited trace unchanged), and the current
\* position is in bounds and not a wall at every step of the simulation.
C1_MoveRejected == [][C1_Rejection]_vars /\ []C1_PositionLegal

\* C1 witness: from a legal start, a move was rejected and another accepted.
C1_Witness ==
    /\ ~Blocked(maze.start)
    /\ collisions > 0
    /\ Len(visited_positions) > 1

\* the simulation state is left alone by the step
C2_Frozen ==
    /\ position' = position
    /\ collisions' = collisions
    /\ visited_positions' = visited_positions
    /\ idx' = idx

\* C2 as stated: once the current position equals end, position, collisions
\* and the visited trace never change again (no further move is simulated).
C2_StopsAtEnd_Original == [][AtGoal => C2_Frozen]_vars

\* C2 amended: the goal test follows each simulated move, so once a simulated
\* move leaves the position equal to end no remaining move is simulated and
\* position, collisions and the visited trace do not change afterwards; with
\* start = end the first move of a non-empty individual is still simulated.
C2_StopsAtEnd == [][(AtGoal /\ idx > 0) => C2_Frozen]_vars

\* C2 witness: the loop was broken at the goal with moves left over.
C2_Witness ==
    /\ Returned
    /\ AtGoal
    /\ maze.start # maze.end
    /\ idx < Len(individual)

\* C3: when the simulation ends with the position equal to end, the fitness
\* is (collisions*10 + revisit_penalty*2, number of visited steps), where
\* revisit_penalty = visited steps - unique cells visited, the number of
\* steps that revisit an already-seen cell.
C3_GoalFitness ==
    (Returned /\ AtGoal) =>
        /\ fitness = <<collisions * 10 + Revisits(visited_positions) * 2,
                       Len(visited_positions)>>
        /\ Revisits(visited_positions)
             = Len(visited_positions) - Cardinality(Range(visited_positions))

\* C3 witness: the goal was reached, from elsewhere, with a non-zero penalty.
C3_Witness ==
    /\ Returned
    /\ AtGoal
    /\ maze.start # maze.end
    /\ Revisits(visited_positions) > 0

\* C4: when the simulation ends with the position different from end, the
\* fitness is (collisions*10 + manhattan_distance*5 + revisit_penalty*2
\* - unique cells visited, max_path_length).
C4_FailureFitness ==
    (Returned /\ ~AtGoal) =>
        fitness = <<collisions * 10
                      + (Abs(position.row - maze.end.row)
                           + Abs(position.col - maze.end.col)) * 5
                      + Revisits(visited_positions) * 2
                      - Cardinality(Range(visited_positions)),
                    max_path_length>>

\* C4 witness: a failed run with a collision, a revisit and moves made.
C4_Witness ==
    /\ Returned
    /\ ~AtGoal
    /\ collisions > 0
    /\ Revisits(visited_positions) > 0

\* C5 as stated: an individual no longer than max_path_length that reaches
\* the goal gets penalty >= 0 and length_term < max_path_length.
C5_GoalBounds_Original ==
    (Returned /\ AtGoal /\ Len(individual) <= max_path_length) =>
        /\ fitness[1] >= 0
        /\ fitness[2] < max_path_length

\* C5 amended: an individual no longer than max_path_length that reaches the
\* goal gets penalty >= 0 and a length_term of at most one more than the
\* number of moves simulated, hence at most max_path_length + 1.
C5_GoalBounds ==
    (Returned /\ AtGoal /\ Len(individual) <= max_path_length) =>
        /\ fitness[1] >= 0
        /\ fitness[2] <= idx + 1
        /\ fitness[2] <= max_path_length + 1

\* C5 witness: the goal is reached by the last move of a full-length
\* individual, so length_term = max_path_length + 1.
C5_Witness ==
    /\ Returned
    /\ AtGoal
    /\ Len(individual) = max_path_length
    /\ fitness[2] = max_path_length + 1
    /\ max_path_length >= 2

\* ------------------------------------------------------------------
\* Claims about the genetic operators (SpecOps)

\* a and b are opposite directions
IsOpposite(a, b) ==
    \/ a = "U" /\ b = "D"
    \/ a = "D" /\ b = "U"
    \/ a = "L" /\ b = "R"
    \/ a = "R" /\ b = "L"

\* s has no two adjacent opposite elements
NoAdjacentOpposites(s) ==
    \A i \in 1..(Len(s) - 1) : ~IsOpposite(s[i], s[i + 1])

\* C6: simplify is idempotent: simplify(simplify(s)) = simplify(s) for every
\* finite sequence s of Directions.
C6_SimplifyIdempotent ==
    op = "simplify_twice" => result2 = result1

\* C6 witness: simplify was applied twice to a sequence that it shortened by
\* cancelling a pair uncovered by an earlier cancellation.
C6_Witness ==
    /\ op = "simplify_twice"
    /\ Len(arg1) = 4
    /\ ~IsOpposite(arg1[1], arg1[2])
    /\ result1 = <<>>

\* C7: simplify(s) contains no two adjacent opposites, and when s has none
\* simplify(s) = s.
C7_SimplifyCanonical ==
    op = "simplify" =>
        /\ NoAdjacentOpposites(result1)
        /\ NoAdjacentOpposites(arg1) => result1 = arg1

\* C7 witness: the cases of the tests, [RIGHT,LEFT,RIGHT,LEFT] -> [] and
\* [RIGHT,RIGHT,DOWN,DOWN] unchanged.
C7_Witness ==
    /\ op = "simplify"
    /\ \/ arg1 = <<"R", "L", "R", "L">> /\ result1 = <<>>
       \/ arg1 = <<"R", "R", "D", "D">> /\ result1 = arg1

\* C9: pad never truncates and never alters existing genes: the input is a
\* prefix of the result; an input no longer than target_length gives a result
\* of length exactly target_length, and an input of length target_length is
\* returned unchanged.
C9_PadExtends ==
    op = "pad" =>
        /\ Len(result1) >= Len(arg1)
        /\ SubSeq(result1, 1, Len(arg1)) = arg1
        /\ Len(arg1) <= target_length => Len(result1) = target_length
        /\ Len(arg1) = target_length => result1 = arg1

\* C9 witness: a shorter input was padded by two genes or more.
C9_Witness ==
    /\ op = "pad"
    /\ Len(arg1) > 0
    /\ Len(result1) >= Len(arg1) + 2

\* ------------------------------------------------------------------
\* Claims about crossover, mutation and the population (SpecOpsGA)

HasFullLength(ind) == Len(ind.genes) = max_path_length

JustSelected == gaPc = "mate" /\ aspirants # <<>>

\* f is at most g, penalty first and length_term second
LexLeq(f, g) == f[1] < g[1] \/ (f[1] = g[1] /\ f[2] <= g[2])

MinLogged ==
    CHOOSE v \in {logbook[k].min : k \in DOMAIN logbook} :
        \A k \in DOMAIN logbook : v <= logbook[k].min

\* what solve returns for the hall-of-fame member
ReturnedBest == <<halloffame[1].genes, halloffame[1].fitness>>

Completed == Len(logbook) - 1

\* the minimum composite scalar of generation g, as logged
LoggedMin(g) == logbook[g + 1].min

\* the loop is inside a generation or about to start the next one
Running == gaPc \in {"select", "mate", "mutate", "evaluate", "record", "raised"}

\* the loop has ended
LoopEnded == gaPc \in {"return", "done"}

\* The stagnation counter after generation g, recomputed from the logged
\* minima of the loop's generations 1..g: incremented when the previous
\* generation's minimum minus this generation's minimum is less than
\* early_stopping_min_change, reset to zero otherwise.
RECURSIVE StagnationCount(_)
StagnationCount(g) ==
    IF g <= 1
    THEN 0
    ELSE IF (LoggedMin(g - 1) - LoggedMin(g)) * MinChangeDen < MinChangeNum
         THEN StagnationCount(g - 1) + 1
         ELSE 0

\* C12: the loop's counter is the stagnation counter of the logged minima;
\* no generation followed one at which the counter had reached
\* early_stopping_generations, and once it reaches it the loop has ended.
C12_StopsAtFirstStagnation ==
    logbook # <<>> =>
        /\ generations_without_improvement = StagnationCount(Completed)
        /\ \A g \in 1..(Completed - 1) :
             StagnationCount(g) < early_stopping_generations
        /\ Running => StagnationCount(Completed) < early_stopping_generations
        /\ StagnationCount(Completed) >= early_stopping_generations => LoopEnded

\* C12 witness: with early_stopping_generations = 2 the loop ended before
\* max_generations, at the generation where the counter reached 2.
C12_Witness ==
    /\ gaPc = "done"
    /\ early_stopping_generations = 2
    /\ Completed < max_generations
    /\ generations_without_improvement = 2
    /\ StagnationCount(Completed) = 2

\* C13: the stagnation counter is zero through generation 1 and after
\* generation g >= 2 it is at most g - 1; the loop never ends before
\* max_generations with fewer than two generations completed.
C13_NoEarlyStopBeforeComparison ==
    /\ (logbook = <<>> \/ Completed <= 1) => generations_without_improvement = 0
    /\ (logbook # <<>> /\ Completed >= 2) =>
            generations_without_improvement <= Completed - 1
    /\ (LoopEnded /\ Completed < max_generations) => Completed >= 2

\* C13 witness: the minimum did not improve from generation 0 to generation 1
\* with early_stopping_generations = 1, and the loop goes on to generation 2
\* with the counter at zero.
C13_Witness ==
    /\ gaPc = "select"
    /\ Completed = 1
    /\ early_stopping_generations = 1
    /\ LoggedMin(1) >= LoggedMin(0)
    /\ generations_without_improvement = 0
    /\ max_generations >= 2

\* the early-stopping condition held after the last completed generation
EarlyStopHeld ==
    /\ Completed >= 2
    /\ StagnationCount(Completed) >= early_stopping_generations

\* the loop never runs more than max_generations generations, ends before
\* max_generations only if the early-stopping condition held, and solve then
\* returns the hall-of-fame individual and its fitness
EndsByLimitOrEarlyStop ==
    logbook # <<>> =>
        /\ Completed <= max_generations
        /\ Running => Completed < max_generations
        /\ LoopEnded => (Completed = max_generations \/ EarlyStopHeld)
        /\ gaPc = "done" => best_path = ReturnedBest

\* a generation is never abandoned by an exception of an operator
NeverAborts == gaPc # "raised"

\* C14: the evolution loop always ends, after max_generations generations or
\* at an early stop and in no other way, never runs more than
\* max_generations generations, and the hall-of-fame individual and its
\* fitness are then returned.
C14_TerminatesAndReturns == EndsByLimitOrEarlyStop /\ NeverAborts

\* the stored fitness of ind is the evaluator's result on its genes
StoredFitnessTrue(ind) ==
    ind.fitness = evaluate_individual(maze, max_path_length, ind.genes)

\* Every stored fitness is the evaluator's result on the current genes, and
\* what selection (the population), the hall-of-fame update and the
\* statistics (the evaluated offspring) read has a fitness stored.
FitnessConsistent ==
    /\ \A k \in DOMAIN population : StoredFitnessTrue(population[k])
    /\ \A k \in DOMAIN halloffame : StoredFitnessTrue(halloffame[k])
    /\ \A k \in DOMAIN offspring :
         FitnessValid(offspring[k]) => StoredFitnessTrue(offspring[k])
    /\ gaPc = "record" => \A k \in DOMAIN offspring : FitnessValid(offspring[k])

\* A step of the crossover loop changes at most the pair it mates, a step of
\* the mutation loop at most the individual it mutates, and what they change
\* loses its fitness; the evaluation step evaluates exactly the offspring
\* without a fitness, counts them, and leaves the others alone; the count is
\* what the logbook records for the generation.
ReevaluatesOnlyInvalidated ==
    /\ gaPc = "mate" =>
         \A k \in DOMAIN offspring :
            offspring'[k] # offspring[k] =>
                /\ k \in {loop_i, loop_i + 1}
                /\ ~FitnessValid(offspring'[k])
    /\ gaPc = "mutate" =>
         \A k \in DOMAIN offspring :
            offspring'[k] # offspring[k] =>
                /\ k = loop_i + 1
                /\ ~FitnessValid(offspring'[k])
    /\ gaPc = "evaluate" =>
         /\ nevals' = Cardinality({k \in DOMAIN offspring : offspring[k].fitness = <<>>})
         /\ \A k \in DOMAIN offspring :
              /\ offspring'[k].genes = offspring[k].genes
              /\ FitnessValid(offspring[k]) => offspring'[k] = offspring[k]
    /\ gaPc = "record" =>
         /\ logbook'[Len(logbook')].nevals = nevals
         /\ population' = offspring
    /\ gaPc = "select" =>
         \A k \in DOMAIN offspring' :
            \E j \in DOMAIN population : offspring'[k] = population[j]

\* C15: in each generation of the loop only the offspring crossover or
\* mutation was applied to are re-evaluated, the logged evaluation count is
\* their number, an offspring selected and not operated on keeps the fitness
\* of the individual it copies, and every fitness selection, the
\* hall-of-fame update or the statistics read is the evaluator's result on
\* the individual's current genes.
C15_FitnessCaching == []FitnessConsistent /\ [][ReevaluatesOnlyInvalidated]_vars

\* C15 witness: a generation in which one offspring was re-evaluated and the
\* other kept its cached fitness is about to be recorded.
C15_Witness ==
    /\ gaPc = "record"
    /\ Len(offspring) = 2
    /\ nevals = 1
    /\ \E k \in DOMAIN offspring : offspring[k] \notin Range(population)
    /\ \E k \in DOMAIN offspring : offspring[k] \in Range(population)

\* ------------------------------------------------------------------
\* Claims about visualize_path (SpecVisualize)

\* C16: for every maze and every path, the positions visualize_path traces
\* are the evaluator's visited-positions trace of the same path, and its
\* "Reached goal" value is true exactly when the evaluator ended on the end
\* cell, i.e. took its goal-reached branch.
C16_VisualizeAsEvaluator ==
    op = "visualize" =>
        /\ result1.path_positions = visited_positions
        /\ result1.path_length = Len(visited_positions)
        /\ result1.reached_goal = (position = maze.end)
        /\ result1.reached_goal =
             (fitness = <<collisions * 10
                            + (Len(visited_positions) - Cardinality(unique_positions)) * 2,
                          Len(visited_positions)>>
              /\ position = maze.end)

\* C16 witness: a path with a rejected move and an accepted move that reaches
\* the end before its last move was visualized.
C16_Witness ==
    /\ op = "visualize"
    /\ collisions > 0
    /\ Len(visited_positions) > 1
    /\ idx < Len(individual)
    /\ result1.reached_goal
    /\ maze.start # maze.end

\* ------------------------------------------------------------------
\* Claims about Maze.is_wall (SpecWall)

\* pos lies outside the extents of the grid, read directly from the grid
OutsideGrid(pos) ==
    \/ pos.row < 0 \/ pos.row >= Len(maze.grid)
    \/ pos.col < 0
    \/ maze.grid # <<>> /\ pos.col >= Len(maze.grid[1])

\* C17: for all mazes, is_wall(pos) is true for every position outside the
\* grid extents, and for a position inside them it is true exactly when the
\* grid cell is marked WALL (1).
C17_OutOfBoundsIsWall ==
    op = "is_wall" =>
        LET pos == arg1[1] IN
        /\ OutsideGrid(pos) => result1 = <<TRUE>>
        /\ ~OutsideGrid(pos) =>
             result1 = <<maze.grid[pos.row + 1][pos.col + 1] = 1>>
        /\ result2 = <<~OutsideGrid(pos)>>

\* C17 witness: is_wall answered true for a position below the last row of a
\* grid, in a column whose cells are all empty.
C17_Witness ==
    /\ op = "is_wall"
    /\ maze.grid # <<>>
    /\ arg1[1].row >= Len(maze.grid)
    /\ arg1[1].col \in 0..(Len(maze.grid[1]) - 1)
    /\ \A r \in DOMAIN maze.grid : maze.grid[r][arg1[1].col + 1] = 0
    /\ result1 = <<TRUE>>

\* ------------------------------------------------------------------
\* Claims about the degenerate individual (SpecEval)

\* the evaluator has returned for the empty individual with
\* max_path_length = 0 on a maze whose start is not its end
EmptyIndividualReturned ==
    /\ Returned
    /\ individual = <<>>
    /\ max_path_length = 0
    /\ maze.start # maze.end

\* the Manhattan distance from start to end, read from the maze
StartDistance ==
    Abs(maze.start.row - maze.end.row) + Abs(maze.start.col - maze.end.col)

\* no move was simulated
NoMoveSimulated ==
    /\ idx = 0
    /\ collisions = 0
    /\ position = maze.start
    /\ visited_positions = <<maze.start>>

\* C18 as stated: for the empty individual with max_path_length = 0 and
\* start # end the evaluator simulates no move and returns the penalty
\* 5 * manhattan_distance(start), with no other contribution.
C18_DistanceOnlyPenalty_Original ==
    EmptyIndividualReturned =>
        /\ NoMoveSimulated
        /\ fitness[1] = 5 * StartDistance

\* C18 amended: for the empty individual with max_path_length = 0 and
\* start # end the evaluator simulates no move and returns the penalty
\* 5 * manhattan_distance(start) - 1, the distance term and the exploration
\* bonus of the one visited cell (start), and the length term
\* max_path_length = 0.
C18_DistanceAndStartBonus ==
    EmptyIndividualReturned =>
        /\ NoMoveSimulated
        /\ fitness = <<5 * StartDistance - 1, 0>>

\* C18 witness: the evaluator returned for the empty individual on a maze
\* whose end is two or more steps from its start.
C18_Witness ==
    /\ EmptyIndividualReturned
    /\ StartDistance >= 2
    /\ fitness[2] = 0

\* ------------------------------------------------------------------
\* Claims about the displacement of a simplified individual (SpecOps)

\* the position reached from p by the moves of s in order, none rejected
RECURSIVE ApplyMoves(_, _)
ApplyMoves(p, s) ==
    IF s = <<>> THEN p ELSE ApplyMoves(move(p, Head(s)), Tail(s))

\* the positions the moves are applied from
StartPositions ==
    {Position(r, c) : r \in (0 - ProbeMargin)..ProbeMargin,
                      c \in (0 - ProbeMargin)..ProbeMargin}

\* C20: simplify preserves net displacement: for every sequence s of
\* Directions and every position p, the moves of simplify(s) applied in order
\* with Maze.move from p reach the position the moves of s reach from p.
C20_SimplifyKeepsDisplacement ==
    op = "simplify" =>
        \A p \in StartPositions : ApplyMoves(p, result1) = ApplyMoves(p, arg1)

\* C20 witness: simplify cancelled one pair of a four-move sequence and the
\* two moves left displace the position.
C20_Witness ==
    /\ op = "simplify"
    /\ Len(arg1) = 4
    /\ Len(result1) = 2
    /\ ApplyMoves(Position(0, 0), arg1) # Position(0, 0)
    /\ ApplyMoves(Position(0, 0), result1) = ApplyMoves(Position(0, 0), arg1)

\* ------------------------------------------------------------------
\* Claims about reproduction and object identity (SpecRefs)

\* The hall-of-fame item is an object of its own, not an element of the
\* population; while a generation is being produced the offspring are
\* pairwise distinct objects, none of them an element of the population or
\* the hall-of-fame item.
RefsSeparate ==
    /\ \A k \in DOMAIN hof_refs, j \in DOMAIN population_refs :
         hof_refs[k] # population_refs[j]
    /\ gaPc \in {"mate", "mutate", "evaluate", "record"} =>
         /\ \A k, j \in DOMAIN offspring_refs :
              k # j => offspring_refs[k] # offspring_refs[j]
         /\ \A k \in DOMAIN offspring_refs :
              /\ \A j \in DOMAIN population_refs :
                   offspring_refs[k] # population_refs[j]
              /\ \A j \in DOMAIN hof_refs : offspring_refs[k] # hof_refs[j]

\* the positions in offspring the current step of the crossover or mutation
\* loop is applied to
Operated == IF gaPc = "mate" THEN {loop_i, loop_i + 1} ELSE {loop_i + 1}

\* A step of the crossover or mutation loop leaves the genes and fitness of
\* every individual of the population, of the hall-of-fame item and of every
\* offspring it is not applied to as they were.
ReproductionChangesOnlyTarget ==
    gaPc \in {"mate", "mutate"} =>
        /\ Deref(heap', population_refs') = Deref(heap, population_refs)
        /\ Deref(heap', hof_refs') = Deref(heap, hof_refs)
        /\ \A k \in DOMAIN offspring_refs \ Operated :
             heap'[offspring_refs'[k]] = heap[offspring_refs[k]]

\* C19: crossover and mutation in a generation leave unchanged the genes and
\* fitness of the individuals of the population they were selected from, of
\* every other offspring (another copy of the same parent included) and of
\* the hall-of-fame individual, which is a copy held apart from the
\* population.
C19_ReproductionFrame ==
    []RefsSeparate /\ [][ReproductionChangesOnlyTarget]_vars

\* C19 witness: mutation changed the first offspring into a chromosome the
\* population does not hold, while the second offspring still has the genes
\* and fitness of the individual of the population it copies.
C19_Witness ==
    /\ gaPc = "evaluate"
    /\ max_path_length = 2
    /\ ~FitnessValid(heap[offspring_refs[1]])
    /\ FitnessValid(heap[offspring_refs[2]])
    /\ \E j \in DOMAIN population_refs :
         heap[offspring_refs[2]] = heap[population_refs[j]]
    /\ \A j \in DOMAIN population_refs :
         heap[offspring_refs[1]].genes # heap[population_refs[j]].genes
    /\ hof_refs # <<>>

====
